---- MODULE Spec2Model ----
(***************************************************************************)
(* Model of pdf_to_csv_converter.py: the command line entry point, the     *)
(* PDFToCSVConverter run (schema finalization, page loop, counters), the   *)
(* three extraction strategies and the column detector.                   *)
(*                                                                         *)
(* A str is a sequence of code points (32 space, 10 newline, 42 '*',       *)
(* 49 '1', 97 'a', 98 'b', 1593 ARABIC LETTER AIN).  A column name is a    *)
(* TLA+ string.  num_columns = 0 stands for both None and 0, which every   *)
(* test in the program (`not self.num_columns`) treats alike.              *)
(***************************************************************************)
EXTENDS Integers, Sequences, FiniteSets, TLC

VARIABLES pc, args, method, validate, interactive, column_names, num_columns,
          pdf, page_no, total_records, valid_records, invalid_records,
          header, rows, constructed, calls, returned, supplied, detected

vars == <<pc, args, method, validate, interactive, column_names, num_columns,
          pdf, page_no, total_records, valid_records, invalid_records,
          header, rows, constructed, calls, returned, supplied, detected>>

(* ------------------------------ bounds --------------------------------- *)
MaxTextLen == 5
MaxCols == 3
MaxPages == 2
MaxSkip == 1
NumDataLines == 20
NumNoiseLines == 5

(* ------------------------- program constants --------------------------- *)
DefaultColumns == 3
TokenScanLines == 50
HistogramLines == 100
MinFullRecords == 3
SamplePositions == 5
MinDetect == 2
MaxDetect == 10

Min(a, b) == IF a < b THEN a ELSE b

(* ------------------------------ str ------------------------------------ *)
\* str.isspace() per character (the ASCII whitespace of the model's alphabet)
IsSpace(c) == c \in {9, 10, 11, 12, 13, 32}

\* str.isdigit() / str.isalpha() per character
IsDigitChar(c) == c \in 48..57
IsAlphaChar(c) == c \in (65..90) \cup (97..122) \cup (1569..1594)

\* token.isdigit(), token.isalpha(): non-empty and every character in class
isdigit(s) == Len(s) > 0 /\ \A i \in 1..Len(s) : IsDigitChar(s[i])
isalpha(s) == Len(s) > 0 /\ \A i \in 1..Len(s) : IsAlphaChar(s[i])

\* length of the run of characters satisfying / not satisfying IsSpace that
\* starts at index p (0 when p is past the end)
RECURSIVE SpaceRun(_, _)
SpaceRun(s, p) ==
    IF p > Len(s) \/ ~IsSpace(s[p]) THEN 0 ELSE 1 + SpaceRun(s, p + 1)

RECURSIVE NonSpaceRun(_, _)
NonSpaceRun(s, p) ==
    IF p > Len(s) \/ IsSpace(s[p]) THEN 0 ELSE 1 + NonSpaceRun(s, p + 1)

RECURSIVE TrailingSpace(_, _)
TrailingSpace(s, p) ==
    IF p < 1 \/ ~IsSpace(s[p]) THEN 0 ELSE 1 + TrailingSpace(s, p - 1)

\* str.strip()
strip(s) ==
    LET lead == SpaceRun(s, 1)
    IN  IF lead = Len(s) THEN <<>>
        ELSE SubSeq(s, lead + 1, Len(s) - TrailingSpace(s, Len(s)))

\* str.split(): maximal runs of non-whitespace, in order, no empty strings
RECURSIVE split_from(_, _)
split_from(s, p) ==
    IF p > Len(s) THEN <<>>
    ELSE IF IsSpace(s[p]) THEN split_from(s, p + 1)
    ELSE LET n == NonSpaceRun(s, p)
         IN  <<SubSeq(s, p, p + n - 1)>> \o split_from(s, p + n)

split(s) == split_from(s, 1)

\* str.split('\n'): cut at every newline, empty pieces kept; piece k lies
\* between the (k-1)-th and the k-th newline
split_lines(s) ==
    LET newlines == {p \in 1..Len(s) : s[p] = 10}
        cut(k) == IF k = 0 THEN 0
                  ELSE IF k > Cardinality(newlines) THEN Len(s) + 1
                  ELSE CHOOSE p \in newlines :
                           Cardinality({q \in newlines : q <= p}) = k
    IN  [k \in 1..(Cardinality(newlines) + 1) |-> SubSeq(s, cut(k - 1) + 1, cut(k) - 1)]

\* str(cell) for a table cell: None (modelled as <<-1>>) prints as "None"
NoneCell == <<-1>>
str(cell) == IF cell = NoneCell THEN <<78, 111, 110, 101>> ELSE cell

(* ----------------------------- DataRecord ------------------------------ *)
\* DataRecord.validate
record_validate(values) ==
    \A i \in 1..Len(values) : values[i] # <<>> /\ strip(values[i]) # <<>>

\* the result of one strategy call: the records appended, every value list a
\* DataRecord was constructed from, and the counter increments
NoRecords == [records |-> <<>>, candidates |-> <<>>, valid |-> 0, invalid |-> 0]

\* `if not self.validate or record.validate()`
keep_validated(val, values) == record_validate(values)
keep_record(val, values) == ~val \/ record_validate(values)

\* construct a DataRecord from values, then keep and count it or reject it
\* (variants: one that counts before it validates, one that drops records
\* holding a character above code point 1536 without counting them)
HasHighChar(values) ==
    \E i \in 1..Len(values) : \E j \in 1..Len(values[i]) : values[i][j] > 1536
add_record_counting_first(st, values, val) ==
    [st EXCEPT !.candidates = Append(@, values),
               !.records = IF keep_record(val, values) THEN Append(@, values) ELSE @,
               !.valid = @ + 1,
               !.invalid = IF keep_record(val, values) THEN @ ELSE @ + 1]
add_record_script_filtered(st, values, val) ==
    IF HasHighChar(values) THEN [st EXCEPT !.candidates = Append(@, values)]
    ELSE IF keep_record(val, values)
    THEN [st EXCEPT !.candidates = Append(@, values),
                    !.records = Append(@, values),
                    !.valid = @ + 1]
    ELSE [st EXCEPT !.candidates = Append(@, values),
                    !.invalid = @ + 1]
add_record(st, values, val) ==
    IF keep_record(val, values)
    THEN [st EXCEPT !.candidates = Append(@, values),
                    !.records = Append(@, values),
                    !.valid = @ + 1]
    ELSE [st EXCEPT !.candidates = Append(@, values),
                    !.invalid = @ + 1]

(* ------------------------ extract_structured_data ---------------------- *)
RECURSIVE structured_loop(_, _, _, _, _)
overlapping_loop(tokens, i, ncols, val, st) ==
    IF i + ncols <= Len(tokens)
    THEN structured_loop(tokens, i + 1, ncols, val,
                         add_record(st, SubSeq(tokens, i + 1, i + ncols), val))
    ELSE st
structured_loop(tokens, i, ncols, val, st) ==
    IF i + ncols <= Len(tokens)
    THEN structured_loop(tokens, i + ncols, ncols, val,
                         add_record(st, SubSeq(tokens, i + 1, i + ncols), val))
    ELSE st

extract_structured_data(text, ncols, val) ==
    IF ncols = 0 THEN NoRecords
    ELSE structured_loop(split(text), 0, ncols, val, NoRecords)

(* -------------------------- extract_regex_data ------------------------- *)
\* The pattern (\S+)\s*(\S+)...\s*(\S+) matched at index p the way the
\* backtracking matcher does: each \S+ and each \s* takes the longest run
\* first and gives characters back one at a time until the rest matches.
\* A match is the sequence of its groups' spans; <<>> is no match.
RECURSIVE match_groups(_, _, _, _)
RECURSIVE try_group_len(_, _, _, _, _)
RECURSIVE try_space_len(_, _, _, _, _)

try_space_len(text, q, k, ncols, ws) ==
    IF ws < 0 THEN <<>>
    ELSE LET r == match_groups(text, q + ws, k + 1, ncols)
         IN  IF r # <<>> THEN r ELSE try_space_len(text, q, k, ncols, ws - 1)

try_group_len(text, p, k, ncols, len) ==
    IF len < 1 THEN <<>>
    ELSE IF k = ncols THEN <<[s |-> p, e |-> p + len - 1]>>
    ELSE LET r == try_space_len(text, p + len, k, ncols, SpaceRun(text, p + len))
         IN  IF r # <<>> THEN <<[s |-> p, e |-> p + len - 1]>> \o r
             ELSE try_group_len(text, p, k, ncols, len - 1)

match_groups(text, p, k, ncols) ==
    try_group_len(text, p, k, ncols, NonSpaceRun(text, p))

\* what findall yields for one match, after list(match): a tuple of the groups,
\* or, for a pattern with a single group, the matched string itself, which
\* list() breaks into its characters
match_values(text, m) ==
    IF Len(m) = 1
    THEN [i \in 1..(m[1].e - m[1].s + 1) |-> <<text[m[1].s + i - 1]>>]
    ELSE [i \in 1..Len(m) |-> SubSeq(text, m[i].s, m[i].e)]

\* pattern.findall(text): leftmost matches, each search resuming at the end of
\* the previous match
RECURSIVE findall(_, _, _)
findall(text, pos, ncols) ==
    IF pos > Len(text) THEN <<>>
    ELSE LET m == match_groups(text, pos, 1, ncols)
         IN  IF m = <<>> THEN findall(text, pos + 1, ncols)
             ELSE <<match_values(text, m)>> \o findall(text, m[Len(m)].e + 1, ncols)

RECURSIVE regex_loop(_, _, _, _)
regex_loop(matches, i, val, st) ==
    IF i > Len(matches) THEN st
    ELSE regex_loop(matches, i + 1, val, add_record(st, matches[i], val))

extract_regex_data(text, ncols, val) ==
    IF ncols = 0 THEN NoRecords
    ELSE regex_loop(findall(text, 1, ncols), 1, val, NoRecords)

(* -------------------------- extract_table_data ------------------------- *)
RECURSIVE table_rows_loop(_, _, _, _, _)
table_rows_loop(table, r, ncols, val, st) ==
    IF r > Len(table) THEN st
    ELSE IF Len(table[r]) >= ncols
         THEN table_rows_loop(table, r + 1, ncols, val,
                  add_record(st, [i \in 1..ncols |-> strip(str(table[r][i]))], val))
         ELSE table_rows_loop(table, r + 1, ncols, val, st)

RECURSIVE tables_loop(_, _, _, _, _)
tables_loop(tables, t, ncols, val, st) ==
    IF t > Len(tables) THEN st
    ELSE tables_loop(tables, t + 1, ncols, val,
                     table_rows_loop(tables[t], 1, ncols, val, st))

extract_table_data(page, ncols, val) ==
    tables_loop(page.tables, 1, ncols, val, NoRecords)

(* ------------------------------ process_page --------------------------- *)
\* one strategy call as process_page sees it
Call(name, st) == [strategy |-> name, candidates |-> st.candidates, records |-> st.records]

\* the page's result: the records returned, the strategy calls made in order,
\* and the counter increments of those calls
PageResult(records, cs, sts) ==
    [records |-> records, calls |-> cs,
     valid |-> IF Len(sts) = 0 THEN 0
               ELSE IF Len(sts) = 1 THEN sts[1].valid ELSE sts[1].valid + sts[2].valid,
     invalid |-> IF Len(sts) = 0 THEN 0
                 ELSE IF Len(sts) = 1 THEN sts[1].invalid ELSE sts[1].invalid + sts[2].invalid]

\* (variants: one that drops the first page's leading record as a header row,
\* one that runs the structured pass after every regex pass)
after_header(page, records) ==
    IF page.page_number = 1 /\ Len(records) > 0 THEN Tail(records) ELSE records
process_page_skipping_header(page, meth, ncols, val) ==
    IF meth = "table"
    THEN LET t == extract_table_data(page, ncols, val)
         IN  PageResult(after_header(page, t.records), <<Call("table", t)>>, <<t>>)
    ELSE IF page.text = <<>> THEN PageResult(<<>>, <<>>, <<>>)
    ELSE IF meth = "structured"
    THEN LET s == extract_structured_data(page.text, ncols, val)
         IN  PageResult(after_header(page, s.records), <<Call("structured", s)>>, <<s>>)
    ELSE IF meth = "regex"
    THEN LET r == extract_regex_data(page.text, ncols, val)
         IN  PageResult(after_header(page, r.records), <<Call("regex", r)>>, <<r>>)
    ELSE LET r == extract_regex_data(page.text, ncols, val)
             s == extract_structured_data(page.text, ncols, val)
         IN  IF Len(r.records) = 0
             THEN PageResult(after_header(page, s.records), <<Call("regex", r), Call("structured", s)>>, <<r, s>>)
             ELSE PageResult(after_header(page, r.records), <<Call("regex", r)>>, <<r>>)
process_page_always_structured(page, meth, ncols, val) ==
    IF meth = "table"
    THEN LET t == extract_table_data(page, ncols, val)
         IN  PageResult(t.records, <<Call("table", t)>>, <<t>>)
    ELSE IF page.text = <<>> THEN PageResult(<<>>, <<>>, <<>>)
    ELSE IF meth = "structured"
    THEN LET s == extract_structured_data(page.text, ncols, val)
         IN  PageResult(s.records, <<Call("structured", s)>>, <<s>>)
    ELSE IF meth = "regex"
    THEN LET r == extract_regex_data(page.text, ncols, val)
         IN  PageResult(r.records, <<Call("regex", r)>>, <<r>>)
    ELSE LET r == extract_regex_data(page.text, ncols, val)
             s == extract_structured_data(page.text, ncols, val)
         IN  IF Len(r.records) = 0
             THEN PageResult(s.records, <<Call("regex", r), Call("structured", s)>>, <<r, s>>)
             ELSE PageResult(r.records, <<Call("regex", r), Call("structured", s)>>, <<r, s>>)
process_page(page, meth, ncols, val) ==
    IF meth = "table"
    THEN LET t == extract_table_data(page, ncols, val)
         IN  PageResult(t.records, <<Call("table", t)>>, <<t>>)
    ELSE IF page.text = <<>> THEN PageResult(<<>>, <<>>, <<>>)
    ELSE IF meth = "structured"
    THEN LET s == extract_structured_data(page.text, ncols, val)
         IN  PageResult(s.records, <<Call("structured", s)>>, <<s>>)
    ELSE IF meth = "regex"
    THEN LET r == extract_regex_data(page.text, ncols, val)
         IN  PageResult(r.records, <<Call("regex", r)>>, <<r>>)
    ELSE LET r == extract_regex_data(page.text, ncols, val)
             s == extract_structured_data(page.text, ncols, val)
         IN  IF Len(r.records) = 0
             THEN PageResult(s.records, <<Call("regex", r), Call("structured", s)>>, <<r, s>>)
             ELSE PageResult(r.records, <<Call("regex", r)>>, <<r>>)

(* ------------------------------ detect_columns ------------------------- *)
\* lines[:n]
first_lines(lines, n) == SubSeq(lines, 1, Min(n, Len(lines)))

\* the tokens of the given lines, in order (lines without tokens add none)
RECURSIVE collect_tokens(_, _)
collect_tokens(lines, i) ==
    IF i > Len(lines) THEN <<>>
    ELSE split(strip(lines[i])) \o collect_tokens(lines, i + 1)

\* Method 1: every column position holds tokens of a similar type in the
\* sampled records
type_differs(first_token, token) ==
    isdigit(first_token) # isdigit(token) /\ isalpha(first_token) # isalpha(token)

pattern_matches(all_tokens, num_cols) ==
    \A i \in 0..(num_cols - 1) :
        \A j \in 1..(Min(SamplePositions, Len(all_tokens) \div num_cols) - 1) :
            LET idx == i + j * num_cols
            IN  idx >= Len(all_tokens)
                \/ ~type_differs(all_tokens[i + 1], all_tokens[idx + 1])

pattern_columns(all_tokens) ==
    {n \in MinDetect..MaxDetect :
        Len(all_tokens) >= n * MinFullRecords /\ pattern_matches(all_tokens, n)}

\* Method 2: the token count of every line that has tokens, in line order
RECURSIVE line_lengths(_, _)
line_lengths(lines, i) ==
    IF i > Len(lines) THEN <<>>
    ELSE LET n == Len(split(strip(lines[i])))
         IN  (IF n > 0 THEN <<n>> ELSE <<>>) \o line_lengths(lines, i + 1)

occurrences(lengths, v) == Cardinality({i \in 1..Len(lengths) : lengths[i] = v})

\* max(line_lengths, key=line_lengths.get): the first key, in insertion
\* order, whose count no other key exceeds
least_common_length(lengths) ==
    LET best == CHOOSE i \in 1..Len(lengths) :
                    /\ \A j \in 1..Len(lengths) :
                           occurrences(lengths, lengths[j]) >= occurrences(lengths, lengths[i])
                    /\ \A j \in 1..(i - 1) :
                           occurrences(lengths, lengths[j]) > occurrences(lengths, lengths[i])
    IN  lengths[best]
most_common_length(lengths) ==
    LET best == CHOOSE i \in 1..Len(lengths) :
                    /\ \A j \in 1..Len(lengths) :
                           occurrences(lengths, lengths[j]) <= occurrences(lengths, lengths[i])
                    /\ \A j \in 1..(i - 1) :
                           occurrences(lengths, lengths[j]) < occurrences(lengths, lengths[i])
    IN  lengths[best]

detect_columns(text) ==
    LET lines == split_lines(strip(text))
        all_tokens == collect_tokens(first_lines(lines, TokenScanLines), 1)
        by_pattern == pattern_columns(all_tokens)
        lengths == line_lengths(first_lines(lines, HistogramLines), 1)
    IN  IF all_tokens = <<>> THEN DefaultColumns
        ELSE IF by_pattern # {}
        THEN CHOOSE n \in by_pattern : \A m \in by_pattern : n <= m
        ELSE IF lengths # <<>> /\ most_common_length(lengths) \in MinDetect..MaxDetect
        THEN most_common_length(lengths)
        ELSE DefaultColumns

(* ------------------------------- inputs -------------------------------- *)
Methods == {"auto", "structured", "regex", "table"}

\* a name given on the command line, and the name synthesized for column i
FieldName(i) == "F" \o ToString(i)
default_name(i) == "Column_" \o ToString(i)
default_names(n) == [i \in 1..n |-> default_name(i)]

\* --columns values: absent, or the first k field names
ColumnArgs == {[i \in 1..k |-> FieldName(i)] : k \in 0..MaxCols}

\* page contents the PDF collaborator can hand over: extract_text() and
\* extract_tables()
TableWords == << << <<97>>, <<98>>, <<49>> >>,
                 << <<97>>, <<>>, <<1593>> >>,
                 << <<1593>>, NoneCell >> >>
TableBlanks == << << <<32, 97, 32>> >>, << <<32, 32>> >> >>
PagePool ==
    { [text |-> <<>>, tables |-> <<>>],
      [text |-> <<32>>, tables |-> << <<>> >>],
      [text |-> <<97, 32, 98, 10, 49, 32, 1593>>, tables |-> <<TableWords>>],
      [text |-> <<97, 98>>, tables |-> <<TableBlanks>>] }

Documents ==
    UNION { { [i \in 1..n |-> [page_number |-> i, text |-> f[i].text, tables |-> f[i].tables]]
              : f \in [1..n -> PagePool] } : n \in 0..MaxPages }

\* texts for the strategies taken alone
Alphabet == {97, 49, 32, 10}
Texts == UNION { [1..n -> Alphabet] : n \in 0..MaxTextLen }

NoArgs == [method |-> "auto", no_validate |-> FALSE, interactive |-> FALSE,
           columns |-> <<>>, num_columns |-> 0]
NoSchema == [names |-> <<>>, num |-> 0]

(* ------------------------------- main, convert ------------------------- *)
Init ==
    /\ pc = "main"
    /\ args \in [method : Methods, no_validate : BOOLEAN, interactive : BOOLEAN,
                 columns : ColumnArgs, num_columns : 0..MaxCols]
    /\ pdf \in Documents
    /\ method = "auto" /\ validate = TRUE /\ interactive = FALSE
    /\ column_names = <<>> /\ num_columns = 0
    /\ page_no = 0 /\ total_records = 0 /\ valid_records = 0 /\ invalid_records = 0
    /\ header = <<>> /\ rows = <<>>
    /\ constructed = 0 /\ calls = <<>> /\ returned = <<>>
    /\ supplied = NoSchema /\ detected = 0

\* main: the column-name / column-count check, then the constructor
Main ==
    /\ pc = "main"
    /\ IF args.columns # <<>> /\ args.num_columns # 0
          /\ Len(args.columns) # args.num_columns
       THEN /\ pc' = "exit_error"
            /\ UNCHANGED <<method, validate, interactive, column_names, num_columns>>
       ELSE /\ pc' = "open"
            /\ method' = args.method
            /\ validate' = ~args.no_validate
            /\ interactive' = args.interactive
            /\ column_names' = args.columns
            /\ num_columns' = args.num_columns
    /\ UNCHANGED <<args, pdf, page_no, total_records, valid_records, invalid_records,
                   header, rows, constructed, calls, returned, supplied, detected>>

\* get_column_names_interactive: the confirmed answer; a blank answer for a
\* column gives its default name
interactive_names(n, typed) ==
    [i \in 1..n |-> IF i \in typed THEN FieldName(i) ELSE default_name(i)]

\* convert, up to the end of the interactive block
ConvertInteractive ==
    /\ pc = "open"
    /\ IF interactive /\ column_names = <<>> /\ pdf # <<>> /\ pdf[1].text # <<>>
       THEN LET detected_cols == detect_columns(pdf[1].text)
            IN  /\ detected' = detected_cols
                /\ \E user_input \in {-1} \cup (0..MaxCols) :
                       /\ num_columns' = IF user_input >= 0 THEN user_input ELSE detected_cols
                       /\ \E typed \in {{}, {1}, 1..num_columns'} :
                              column_names' = interactive_names(num_columns', typed)
       ELSE UNCHANGED <<detected, num_columns, column_names>>
    /\ supplied' = [names |-> column_names', num |-> num_columns']
    /\ pc' = "schema"
    /\ UNCHANGED <<args, method, validate, interactive, pdf, page_no, total_records,
                   valid_records, invalid_records, header, rows, constructed, calls,
                   returned>>

\* convert: default column names, then the header row
ConvertSchema ==
    /\ pc = "schema"
    /\ IF column_names = <<>> /\ num_columns # 0
       THEN /\ column_names' = default_names(num_columns)
            /\ UNCHANGED num_columns
       ELSE IF num_columns = 0
       THEN /\ num_columns' = DefaultColumns
            /\ column_names' = <<"Column_1", "Column_2", "Column_3">>
       ELSE UNCHANGED <<column_names, num_columns>>
    /\ header' = column_names'
    /\ pc' = "pages"
    /\ UNCHANGED <<args, method, validate, interactive, pdf, page_no, total_records,
                   valid_records, invalid_records, rows, constructed, calls, returned,
                   supplied, detected>>

\* the inner loop of convert: one row and one count per record
write_rows_first(written, records) == records \o written
write_rows(written, records) == written \o records

RECURSIVE count_candidates(_, _)
count_candidates(cs, i) ==
    IF i > Len(cs) THEN 0 ELSE Len(cs[i].candidates) + count_candidates(cs, i + 1)

\* one iteration of `for page in pages`
ConvertPage ==
    /\ pc = "pages"
    /\ page_no < Len(pdf)
    /\ LET page == pdf[page_no + 1]
           res == process_page(page, method, num_columns, validate)
       IN  /\ valid_records' = valid_records + res.valid
           /\ invalid_records' = invalid_records + res.invalid
           /\ rows' = write_rows(rows, res.records)
           /\ total_records' = total_records + Len(res.records)
           /\ calls' = res.calls
           /\ constructed' = constructed + count_candidates(res.calls, 1)
           /\ returned' = Append(returned, [page |-> page.page_number, records |-> res.records])
    /\ page_no' = page_no + 1
    /\ UNCHANGED <<pc, args, method, validate, interactive, column_names, num_columns,
                   pdf, header, supplied, detected>>

\* convert returns (total_records, valid_records)
ConvertReturn ==
    /\ pc = "pages"
    /\ page_no = Len(pdf)
    /\ pc' = "returned"
    /\ UNCHANGED <<args, method, validate, interactive, column_names, num_columns,
                   pdf, page_no, total_records, valid_records, invalid_records,
                   header, rows, constructed, calls, returned, supplied, detected>>

\* main after convert: exit code 1 when nothing was extracted
MainExit ==
    /\ pc = "returned"
    /\ pc' = IF total_records = 0 THEN "exit_error" ELSE "exit_ok"
    /\ UNCHANGED <<args, method, validate, interactive, column_names, num_columns,
                   pdf, page_no, total_records, valid_records, invalid_records,
                   header, rows, constructed, calls, returned, supplied, detected>>

Next == Main \/ ConvertInteractive \/ ConvertSchema \/ ConvertPage \/ ConvertReturn \/ MainExit

Spec == Init /\ [][Next]_vars

(* ---------------- the strategies taken alone: one text, one call -------- *)
TextPage(t) == [page_number |-> 1, text |-> t, tables |-> <<>>]

InitExtract ==
    /\ pc = "extract"
    /\ args = NoArgs
    /\ method \in {"structured", "regex"}
    /\ validate \in BOOLEAN
    /\ num_columns \in 1..MaxCols
    /\ pdf \in {<<TextPage(t)>> : t \in Texts}
    /\ interactive = FALSE /\ column_names = <<>>
    /\ page_no = 0 /\ total_records = 0 /\ valid_records = 0 /\ invalid_records = 0
    /\ header = <<>> /\ rows = <<>>
    /\ constructed = 0 /\ calls = <<>> /\ returned = <<>>
    /\ supplied = NoSchema /\ detected = 0

ExtractStructured ==
    /\ pc = "extract" /\ method = "structured"
    /\ LET s == extract_structured_data(pdf[1].text, num_columns, validate)
       IN  /\ calls' = <<Call("structured", s)>>
           /\ valid_records' = valid_records + s.valid
           /\ invalid_records' = invalid_records + s.invalid
           /\ constructed' = constructed + Len(s.candidates)
    /\ pc' = "extracted"
    /\ UNCHANGED <<args, method, validate, interactive, column_names, num_columns,
                   pdf, page_no, total_records, header, rows, returned, supplied,
                   detected>>

ExtractRegex ==
    /\ pc = "extract" /\ method = "regex"
    /\ LET r == extract_regex_data(pdf[1].text, num_columns, validate)
       IN  /\ calls' = <<Call("regex", r)>>
           /\ valid_records' = valid_records + r.valid
           /\ invalid_records' = invalid_records + r.invalid
           /\ constructed' = constructed + Len(r.candidates)
    /\ pc' = "extracted"
    /\ UNCHANGED <<args, method, validate, interactive, column_names, num_columns,
                   pdf, page_no, total_records, header, rows, returned, supplied,
                   detected>>

NextExtract == ExtractStructured \/ ExtractRegex

SpecExtract == InitExtract /\ [][NextExtract]_vars

(* ---------------- detect_columns taken alone: one sample text ----------- *)
\* ' '.join(tokens) and '\n'.join(lines)
RECURSIVE join(_, _, _)
join(parts, i, sep) ==
    IF i > Len(parts) THEN <<>>
    ELSE IF i = Len(parts) THEN parts[i]
    ELSE parts[i] \o <<sep>> \o join(parts, i + 1, sep)

\* data lines of exactly four tokens, each token a letter or a digit
LineShapes == {join(f, 1, 32) : f \in [1..4 -> {<<97>>, <<49>>}]}

\* noise lines: they start with '*' and hold one, two, three or five tokens
NoiseShapes == { <<42>>,
                 <<42, 32, 97>>,
                 <<42, 97, 32, 49, 32, 97>>,
                 <<42, 49, 32, 97, 32, 49, 32, 97, 32, 97>> }

\* the data lines: shape f on the first line (layout "first") or on every odd
\* line (layout "odd"), shape g elsewhere
DataLines(f, g, layout) ==
    [i \in 1..NumDataLines |->
        IF i = 1 \/ (layout = "odd" /\ i % 2 = 1) THEN f ELSE g]

NoiseBlock(noise) == [i \in 1..NumNoiseLines |-> noise]

\* a noise line after every k-th data line, the rest of the data after them
RECURSIVE spread(_, _, _, _)
spread(data, noise, k, left) ==
    IF left = 0 \/ Len(data) < k THEN data
    ELSE SubSeq(data, 1, k) \o <<noise>>
         \o spread(SubSeq(data, k + 1, Len(data)), noise, k, left - 1)

SampleLines(f, g, layout, noise, place) ==
    IF place = "before" THEN NoiseBlock(noise) \o DataLines(f, g, layout)
    ELSE IF place = "after" THEN DataLines(f, g, layout) \o NoiseBlock(noise)
    ELSE spread(DataLines(f, g, layout), noise,
                NumDataLines \div NumNoiseLines, NumNoiseLines)

SampleTexts ==
    { join(SampleLines(f, g, layout, noise, place), 1, 10) :
        f \in LineShapes, g \in LineShapes, layout \in {"first", "odd"},
        noise \in NoiseShapes, place \in {"before", "after", "spread"} }

InitDetect ==
    /\ pc = "detect"
    /\ args = NoArgs
    /\ pdf \in {<<TextPage(t)>> : t \in SampleTexts}
    /\ method = "auto" /\ validate = TRUE /\ interactive = TRUE
    /\ column_names = <<>> /\ num_columns = 0
    /\ page_no = 0 /\ total_records = 0 /\ valid_records = 0 /\ invalid_records = 0
    /\ header = <<>> /\ rows = <<>>
    /\ constructed = 0 /\ calls = <<>> /\ returned = <<>>
    /\ supplied = NoSchema /\ detected = 0

DetectColumns ==
    /\ pc = "detect"
    /\ detected' = detect_columns(pdf[1].text)
    /\ pc' = "detected"
    /\ UNCHANGED <<args, method, validate, interactive, column_names, num_columns,
                   pdf, page_no, total_records, valid_records, invalid_records,
                   header, rows, constructed, calls, returned, supplied>>

NextDetect == DetectColumns

SpecDetect == InitDetect /\ [][NextDetect]_vars

(* ======================= properties of the program ====================== *)
\* a value list every value of which holds a non-whitespace character
WellFormed(values) ==
    \A i \in 1..Len(values) : \E j \in 1..Len(values[i]) : ~IsSpace(values[i][j])

\* the candidates that validation lets through, in order
Kept(cands) == SelectSeq(cands, LAMBDA v : ~validate \/ WellFormed(v))

\* the whitespace-separated tokens of a text, found from their first
\* characters: the k-th token starts at the k-th token start and runs up to
\* the next whitespace
TokenStarts(text) ==
    {p \in 1..Len(text) : ~IsSpace(text[p]) /\ (p = 1 \/ IsSpace(text[p - 1]))}
TokenAt(text, k) ==
    LET p == CHOOSE q \in TokenStarts(text) :
                 Cardinality({r \in TokenStarts(text) : r <= q}) = k
        e == CHOOSE q \in p..Len(text) :
                 /\ \A r \in p..q : ~IsSpace(text[r])
                 /\ (q = Len(text) \/ IsSpace(text[q + 1]))
    IN  SubSeq(text, p, e)

RECURSIVE Flatten(_, _)
Flatten(pages, i) ==
    IF i > Len(pages) THEN <<>> ELSE pages[i].records \o Flatten(pages, i + 1)

\* C1: extract_structured_data constructs floor(L / num_columns) records from a
\* text of L tokens; record j holds tokens j*num_columns+1 .. (j+1)*num_columns
\* in order, so the trailing L mod num_columns tokens are in no record.
C1_StrideRecords ==
    (pc = "extracted" /\ method = "structured") =>
        LET text == pdf[1].text
            L == Cardinality(TokenStarts(text))
            c == calls[1]
        IN  /\ Len(c.candidates) = L \div num_columns
            /\ c.records = c.candidates
            /\ \A j \in 0..((L \div num_columns) - 1) :
                   c.candidates[j + 1] =
                       [i \in 1..num_columns |-> TokenAt(text, j * num_columns + i)]

\* a structured call that made a record and left trailing tokens out
C1_Witness ==
    /\ pc = "extracted" /\ method = "structured"
    /\ Len(calls[1].candidates) >= 1
    /\ Cardinality(TokenStarts(pdf[1].text)) % num_columns # 0

\* C2: with validation disabled invalid_records stays 0 and valid_records is
\* the number of records constructed so far, whatever the method and pages.
C2_NoValidation ==
    ~validate => (invalid_records = 0 /\ valid_records = constructed)

\* validation is off and a record that validate() would reject was constructed
C2_Witness ==
    /\ ~validate /\ page_no >= 1
    /\ \E i \in 1..Len(calls) : \E j \in 1..Len(calls[i].candidates) :
           ~WellFormed(calls[i].candidates[j])

\* C3 (as claimed): for every skip_rows = k, the first page's output is its
\* candidate records without the first k.
C3_FirstPageSkipsK ==
    \A k \in 0..MaxSkip :
        (page_no = 1 /\ calls # <<>> /\ k <= Len(Kept(calls[Len(calls)].candidates))) =>
            LET kept == Kept(calls[Len(calls)].candidates)
            IN  returned[1].records = SubSeq(kept, k + 1, Len(kept))

\* C3 (amended): on every page, the first included, no candidate record is
\* skipped: the page's output is every candidate that passed validation, in
\* order.
C3_NoPageSkips ==
    (page_no >= 1 /\ calls # <<>>) =>
        returned[page_no].records = Kept(calls[Len(calls)].candidates)

\* two pages processed, both with output
C3_Witness ==
    /\ page_no = 2
    /\ returned[1].records # <<>>
    /\ returned[2].records # <<>>

\* C4 (as claimed): under the structured and table strategies no row written
\* holds a character with code point above 1536.
C4_NoHighCodePointRows ==
    method \in {"structured", "table"} =>
        \A i \in 1..Len(rows) : ~HasHighChar(rows[i])

\* C4 (amended): under the structured and table strategies every well-formed
\* candidate is returned, whatever its characters, and every record constructed
\* is counted either valid or invalid.
C4_OnlyValidationDiscards ==
    (method \in {"structured", "table"} /\ page_no >= 1 /\ calls # <<>>) =>
        /\ \A j \in 1..Len(calls[1].candidates) :
               WellFormed(calls[1].candidates[j]) =>
                   \E r \in 1..Len(returned[page_no].records) :
                       returned[page_no].records[r] = calls[1].candidates[j]
        /\ constructed = valid_records + invalid_records

\* a row with a character above 1536 was written under structured or table
C4_Witness ==
    /\ method \in {"structured", "table"}
    /\ \E i \in 1..Len(rows) : HasHighChar(rows[i])

\* C5: in AUTO mode on a page with text the regex strategy runs first, the
\* structured strategy runs (once, and last) exactly when regex returned no
\* record, and the page's result is the regex records if any, else the
\* structured records.
C5_AutoChain ==
    (method = "auto" /\ page_no >= 1 /\ pdf[page_no].text # <<>>) =>
        /\ Len(calls) \in {1, 2}
        /\ calls[1].strategy = "regex"
        /\ (Len(calls) = 2) <=> (calls[1].records = <<>>)
        /\ Len(calls) = 2 => calls[2].strategy = "structured"
        /\ returned[page_no].records =
               IF calls[1].records # <<>> THEN calls[1].records
               ELSE calls[Len(calls)].records

\* an AUTO page on which the structured fallback ran
C5_Witness ==
    /\ method = "auto" /\ page_no >= 1 /\ pdf[page_no].text # <<>>
    /\ Len(calls) = 2

\* C6: pages are processed in document order, the data rows are the pages'
\* returned records concatenated in that order, and at return total_records
\* is the number of data rows.
C6_RowsInPageOrder ==
    /\ Len(returned) = page_no
    /\ \A i \in 1..Len(returned) : returned[i].page = i
    /\ rows = Flatten(returned, 1)
    /\ pc = "returned" => (page_no = Len(pdf) /\ total_records = Len(rows))

\* convert returned after two pages that gave different, non-empty outputs
C6_Witness ==
    /\ pc = "returned" /\ page_no = 2
    /\ returned[1].records # <<>>
    /\ returned[2].records # <<>>
    /\ returned[1].records # returned[2].records

\* the column counts in 2..10 whose repeating-pattern test passes on a flat token
\* sequence holding five records of that width, and the least member of a set
PassingCounts(tokens) ==
    {n \in 2..10 : Len(tokens) >= 5 * n /\ \A i \in 1..n : \A j \in 1..4 :
                       ~type_differs(tokens[i], tokens[i + j * n])}
LowestOf(counts, n) == n \in counts /\ \A m \in counts : n <= m
PatternThenMode(tokens, result) ==
    IF PassingCounts(tokens) = {} THEN result = 4
    ELSE LowestOf(PassingCounts(tokens), result)

\* C7 (as claimed): on a sample of 20 four-token lines and 5 noise lines that
\* start with '*', detect_columns returns 4.
C7_ReturnsFour == pc = "detected" => detected = 4

\* C7 (amended): detect_columns returns the smallest column count in 2..10
\* whose repeating-pattern test passes on the sample's flat token sequence,
\* and 4, the most frequent per-line token count, when none passes.
C7_PatternThenMode ==
    pc = "detected" =>
        PatternThenMode(collect_tokens(split_lines(pdf[1].text), 1), detected)

\* a sample on which no pattern passes and the line histogram decides
C7_Witness ==
    /\ pc = "detected" /\ detected = 4
    /\ pattern_columns(collect_tokens(split_lines(pdf[1].text), 1)) = {}

\* C8: once the header is written it is the supplied column names if any, else
\* Column_1..Column_<num_columns> if num_columns was set, else Column_1..3 with
\* num_columns 3; and it has num_columns names.
C8_SchemaPriority ==
    pc \in {"pages", "returned"} =>
        /\ IF supplied.names # <<>> THEN header = supplied.names
           ELSE IF supplied.num # 0
           THEN header = [i \in 1..supplied.num |-> "Column_" \o ToString(i)]
           ELSE num_columns = 3 /\ header = <<"Column_1", "Column_2", "Column_3">>
        /\ Len(header) = num_columns

\* C9: every record of extract_regex_data is num_columns consecutive whole
\* tokens of the text, records do not overlap, and a text with fewer than
\* num_columns tokens gives none.
C9_WholeTokens ==
    (pc = "extracted" /\ method = "regex") =>
        LET tokens == split(pdf[1].text)
            recs == calls[1].records
        IN  /\ Len(recs) * num_columns <= Len(tokens)
            /\ \A r \in 1..Len(recs) :
                   \E s \in 1..(Len(tokens) - num_columns + 1) :
                       recs[r] = SubSeq(tokens, s, s + num_columns - 1)

\* C10: at every page boundary and at return total_records = valid_records,
\* and invalid_records counts exactly the constructed records not returned.
C10_TotalIsValid ==
    pc \in {"pages", "returned"} =>
        /\ total_records = valid_records
        /\ invalid_records = constructed - total_records

\* a finished run that returned records and rejected some
C10_Witness ==
    /\ pc = "returned"
    /\ total_records > 0
    /\ invalid_records > 0

====
